---- MODULE Spec2Model ----
(***************************************************************************)
(* Model of the n-gram plagiarism detector: the offset-preserving          *)
(* tokenizer, n-gram generation, the similarity score, the matcher, the    *)
(* segment merger and the multi-source loop                                *)
(* (src/text_processor.py, src/plagiarism_detector.py).                    *)
(*                                                                         *)
(* A text is a sequence of characters, a character a string.  Offsets are  *)
(* Python's: 0-based, end exclusive.  A float similarity k/m is the pair   *)
(* <<k, m>> in lowest terms (0.0 is <<0, 1>>).                             *)
(***************************************************************************)
EXTENDS Integers, Sequences, FiniteSets, TLC

VARIABLES
    pc,                        \* position of the running entry point
    n,                         \* the n-gram size argument
    suspicious_raw_text,       \* argument: the suspicious document
    source_raw_text,           \* argument of find_plagiarism_segments
    source_documents,          \* argument: <<name, text>> pairs in dict order
    idx,                       \* number of source documents already iterated
    similarity,                \* similarity returned by the last call
    segments,                  \* segments returned by the last call
    all_plagiarized_segments,  \* accumulator of detect_plagiarism_multiple_sources
    source_matches,            \* per-source summaries (name -> record)
    max_similarity,            \* running maximum of the loop
    merged_segments,           \* result of merge_overlapping_segments
    remerged_segments,         \* result of merging merged_segments again
    suspicious_tokens,         \* argument of calculate_similarity / generate_ngrams
    source_tokens,             \* argument of calculate_similarity
    ngrams_out,                \* result of generate_ngrams(suspicious_tokens, n)
    find_results,              \* (source_name, (similarity, segments)) of each iteration
    detected_segments,         \* argument of create_html_report
    highlighted_text,          \* body built by create_html_report
    raw_text,                  \* argument `text` of preprocess_text_with_offsets
    tokens_with_offsets        \* result of preprocess_text_with_offsets(raw_text)

vars == <<pc, n, suspicious_raw_text, source_raw_text, source_documents, idx,
          similarity, segments, all_plagiarized_segments, source_matches,
          max_similarity, merged_segments, remerged_segments,
          suspicious_tokens, source_tokens, ngrams_out, find_results,
          detected_segments, highlighted_text, raw_text, tokens_with_offsets>>

----------------------------------------------------------------------------
(* Bounds of the checked instances *)

MaxN == 2            \* n ranges over 1..MaxN (1..MaxN+1 for the scorer, 0..MaxN at the entry points)
MaxTextLen == 3      \* characters of a raw suspicious text (matcher runs)
MaxSrcWords == 2     \* words of a source text
MaxSuspWords == 3    \* words of a suspicious text (multi-source runs)
MaxSources == 2      \* entries of the source-document mapping
MaxTokens == 3       \* tokens of a sequence given to the scorer
MaxSegs == 3         \* segments of a list given to the merger
MaxRawLen == 4       \* characters of a raw text given to the tokenizer
MaxPos == 3          \* largest character offset of such a segment

----------------------------------------------------------------------------
(* Generic helpers *)

Min(a, b) == IF a < b THEN a ELSE b
Max(a, b) == IF a > b THEN a ELSE b

Range(s) == {s[i] : i \in DOMAIN s}

RECURSIVE Flatten(_)
Flatten(ss) == IF ss = <<>> THEN <<>> ELSE Head(ss) \o Flatten(Tail(ss))

\* Sequences over S of length at most k
SeqsUpTo(S, k) == UNION {[1..m -> S] : m \in 0..k}

\* Python's s[i:j] for a sequence (negative indices count from the end,
\* out-of-range indices are clamped)
SliceIndex(k, len) == IF k < 0 THEN Max(0, k + len) ELSE Min(k, len)
PySlice(s, i, j) ==
    LET a == SliceIndex(i, Len(s))
        b == SliceIndex(j, Len(s))
    IN  IF a >= b THEN <<>> ELSE SubSeq(s, a + 1, b)
PySliceFrom(s, i) == PySlice(s, i, Len(s))

RECURSIVE GCD(_, _)
GCD(a, b) == IF b = 0 THEN a ELSE GCD(b, a % b)

\* The float num/den (den > 0), as a pair in lowest terms
Ratio(num, den) == LET g == GCD(num, den) IN <<num \div g, den \div g>>
Zero == Ratio(0, 1)
One == Ratio(1, 1)
Less(x, y) == x[1] * y[2] < y[1] * x[2]
LessEq(x, y) == x[1] * y[2] <= y[1] * x[2]

----------------------------------------------------------------------------
(* Characters: "b" a letter, "a" a letter that alone is a stop-word, "B" an *)
(* upper-case letter, " " a blank, "." a punctuation mark, "Idot" the      *)
(* letter U+0130 whose lower-case form is the two characters "i" + U+0307  *)
(* ("cdot", a combining mark: neither a word character nor punctuation).   *)

Chars == {"a", "b", "B", " ", ".", "Idot"}

Punctuation == {"."}

WordChars == {"a", "b", "B", "i", "Idot"}

\* stopwords.words('english') restricted to the words over WordChars
StopWords == {<<"a">>, <<"i">>}

\* str.lower() of one character
LowerChar(c) ==
    CASE c = "B" -> <<"b">>
      [] c = "Idot" -> <<"i", "cdot">>
      [] OTHER -> <<c>>

\* text.lower()
Lower(text) == Flatten([i \in DOMAIN text |-> LowerChar(text[i])])

\* Mutant of ReplacePunctuation: punctuation is deleted, as preprocess_text does
ReplacePunctuationDeleted(text) ==
    SelectSeq(text, LAMBDA c : c \notin Punctuation)

\* re.sub('[<punctuation>]', ' ', text)
ReplacePunctuation(text) ==
    [i \in DOMAIN text |-> IF text[i] \in Punctuation THEN " " ELSE text[i]]

\* End (exclusive, 0-based) of the run of word characters that starts at pos
RECURSIVE RunEnd(_, _)
RunEnd(text, pos) ==
    IF pos < Len(text) /\ text[pos + 1] \in WordChars
    THEN RunEnd(text, pos + 1)
    ELSE pos

\* re.finditer(r'\b\w+\b', text) from offset pos on: (word, start, end)
RECURSIVE FindWords(_, _)
FindWords(text, pos) ==
    IF pos >= Len(text) THEN <<>>
    ELSE IF text[pos + 1] \notin WordChars THEN FindWords(text, pos + 1)
    ELSE LET e == RunEnd(text, pos)
         IN  <<<<SubSeq(text, pos + 1, e), pos, e>>>> \o FindWords(text, e)

KeepToken(tok) == tok[1] \notin StopWords

preprocess_text_with_offsets(text) ==
    LET clean_text == ReplacePunctuation(Lower(text))
    IN  SelectSeq(FindWords(clean_text, 0), KeepToken)

----------------------------------------------------------------------------
(* N-grams and the similarity score *)

\* Mutant of Iterables: the copies are not advanced
IterablesNotAdvanced(sequence, k) == [i \in 1..k |-> sequence]

\* itertools.tee(sequence, n) with the i-th copy advanced by i items
Iterables(sequence, k) ==
    [i \in 1..k |-> SubSeq(sequence, i, Len(sequence))]

\* zip(*iterables): stops with the shortest; zip() of nothing is empty
ZipLen(its) ==
    IF its = <<>> THEN 0
    ELSE CHOOSE m \in {Len(its[i]) : i \in DOMAIN its} :
             \A i \in DOMAIN its : m <= Len(its[i])
Zip(its) == [j \in 1..ZipLen(its) |-> [i \in DOMAIN its |-> its[i][j]]]

\* nltk.util.ngrams(sequence, n)
ngrams(sequence, k) == Zip(Iterables(sequence, k))

generate_ngrams(tokens, k) == ngrams(tokens, k)

\* Mutant of calculate_similarity: the symmetric Jaccard index
calculate_similarity_jaccard(susp_tokens, src_tokens, k) ==
    LET suspicious_ngrams == Range(generate_ngrams(susp_tokens, k))
        source_ngrams == Range(generate_ngrams(src_tokens, k))
        common_ngrams == suspicious_ngrams \cap source_ngrams
    IN  IF suspicious_ngrams = {} THEN Zero
        ELSE Ratio(Cardinality(common_ngrams),
                   Cardinality(suspicious_ngrams \cup source_ngrams))

\* Mutant of calculate_similarity: the sets compared hold words, not n-grams
calculate_similarity_words(susp_tokens, src_tokens, k) ==
    LET suspicious_words == Range(susp_tokens)
        common_words == suspicious_words \cap Range(src_tokens)
    IN  IF generate_ngrams(susp_tokens, k) = <<>> THEN Zero
        ELSE Ratio(Cardinality(common_words), Cardinality(suspicious_words))

\* Mutant of calculate_similarity: the denominator counts every suspicious
\* n-gram occurrence instead of the distinct n-grams
calculate_similarity_occurrences(susp_tokens, src_tokens, k) ==
    LET suspicious_ngrams == Range(generate_ngrams(susp_tokens, k))
        source_ngrams == Range(generate_ngrams(src_tokens, k))
        common_ngrams == suspicious_ngrams \cap source_ngrams
    IN  IF suspicious_ngrams = {} THEN Zero
        ELSE Ratio(Cardinality(common_ngrams), Len(generate_ngrams(susp_tokens, k)))

calculate_similarity(susp_tokens, src_tokens, k) ==
    LET suspicious_ngrams == Range(generate_ngrams(susp_tokens, k))
        source_ngrams == Range(generate_ngrams(src_tokens, k))
        common_ngrams == suspicious_ngrams \cap source_ngrams
    IN  IF suspicious_ngrams = {} THEN Zero
        ELSE Ratio(Cardinality(common_ngrams), Cardinality(suspicious_ngrams))

----------------------------------------------------------------------------
(* The matcher *)

\* [token[0] for token in tokens_info]
TokenWords(tokens_info) == [i \in DOMAIN tokens_info |-> tokens_info[i][1]]

\* 0-based positions 0 .. len-1
Enumerate(len) == [j \in 1..len |-> j - 1]

\* The index built by setdefault(...).append(i): n-gram -> positions
source_ngram_map(source_ngrams_raw) ==
    [g \in Range(source_ngrams_raw) |->
        SelectSeq(Enumerate(Len(source_ngrams_raw)),
                  LAMBDA i : source_ngrams_raw[i + 1] = g)]

\* Mutant of source_start_idx: the last recorded occurrence
source_start_idx_last(positions) == positions[Len(positions)]

\* source_ngram_map[s_ngram][0]
source_start_idx(positions) == positions[1]

\* `s_ngram in source_ngram_map`
IsMatch(s_ngram, ngram_map) == s_ngram \in DOMAIN ngram_map

\* Mutant of MatchingWindows: a repeated suspicious n-gram is reported once
MatchingWindowsOnce(suspicious_ngrams_raw, ngram_map) ==
    SelectSeq(Enumerate(Len(suspicious_ngrams_raw)),
              LAMBDA i : /\ IsMatch(suspicious_ngrams_raw[i + 1], ngram_map)
                         /\ \A j \in 1..i :
                              suspicious_ngrams_raw[j] # suspicious_ngrams_raw[i + 1])

\* Mutant of MatchingWindows: the enumeration starts at the second window
MatchingWindowsSkipFirst(suspicious_ngrams_raw, ngram_map) ==
    SelectSeq(Enumerate(Len(suspicious_ngrams_raw)),
              LAMBDA i : i >= 1 /\ IsMatch(suspicious_ngrams_raw[i + 1], ngram_map))

\* The window positions i (0-based, ascending) that pass the test of line 81
MatchingWindows(suspicious_ngrams_raw, ngram_map) ==
    SelectSeq(Enumerate(Len(suspicious_ngrams_raw)),
              LAMBDA i : IsMatch(suspicious_ngrams_raw[i + 1], ngram_map))

\* The record appended for suspicious window i (0-based)
MatchRecord(susp_raw_text, susp_info, src_info, ngram_map, s_ngram, i, k) ==
    LET s_start_token_idx == i
        s_end_token_idx == i + k - 1
        start_char_suspicious == susp_info[s_start_token_idx + 1][2]
        end_char_suspicious == susp_info[s_end_token_idx + 1][3]
        src_start == source_start_idx(ngram_map[s_ngram])
        src_end == src_start + k - 1
    IN  [text |-> PySlice(susp_raw_text, start_char_suspicious, end_char_suspicious),
         suspicious_start_char |-> start_char_suspicious,
         suspicious_end_char |-> end_char_suspicious,
         source_start_char |-> src_info[src_start + 1][2],
         source_end_char |-> src_info[src_end + 1][3]]

\* Returns <<overall_similarity, plagiarized_segments>>
find_plagiarism_segments(susp_raw_text, src_raw_text, k) ==
    LET suspicious_tokens_info == preprocess_text_with_offsets(susp_raw_text)
        source_tokens_info == preprocess_text_with_offsets(src_raw_text)
        suspicious_words == TokenWords(suspicious_tokens_info)
        source_words == TokenWords(source_tokens_info)
        suspicious_ngrams_raw == generate_ngrams(suspicious_words, k)
        source_ngrams_raw == generate_ngrams(source_words, k)
        ngram_map == source_ngram_map(source_ngrams_raw)
        hits == MatchingWindows(suspicious_ngrams_raw, ngram_map)
        plagiarized_segments ==
            [j \in DOMAIN hits |->
                MatchRecord(susp_raw_text, suspicious_tokens_info, source_tokens_info,
                            ngram_map, suspicious_ngrams_raw[hits[j] + 1], hits[j], k)]
    IN  <<calculate_similarity(suspicious_words, source_words, k), plagiarized_segments>>

----------------------------------------------------------------------------
(* The segment merger *)

\* sorted(..., key=suspicious_start_char): stable insertion of one segment
RECURSIVE InsertByStart(_, _)
InsertByStart(seg, sorted) ==
    IF sorted = <<>> THEN <<seg>>
    ELSE IF seg.suspicious_start_char < sorted[Len(sorted)].suspicious_start_char
         THEN Append(InsertByStart(seg, SubSeq(sorted, 1, Len(sorted) - 1)),
                     sorted[Len(sorted)])
         ELSE Append(sorted, seg)

RECURSIVE SortByStart(_)
SortByStart(segs) ==
    IF segs = <<>> THEN <<>>
    ELSE InsertByStart(segs[Len(segs)], SortByStart(SubSeq(segs, 1, Len(segs) - 1)))

\* Mutant of Overlaps: adjacency no longer counts as overlap
OverlapsStrict(previous, current) ==
    current.suspicious_start_char < previous.suspicious_end_char

\* `current['suspicious_start_char'] <= previous['suspicious_end_char']`
Overlaps(previous, current) ==
    current.suspicious_start_char <= previous.suspicious_end_char

\* Mutant of AccumulateSources: the incoming name is appended without the
\* `not in previous['sources']` test
AccumulateSourcesNoTest(previous, current) ==
    IF /\ "source_name" \in DOMAIN current
       /\ "source_name" \in DOMAIN previous
       /\ current.source_name # previous.source_name
    THEN LET withList == IF "sources" \notin DOMAIN previous
                         THEN ("sources" :> <<previous.source_name>>) @@ previous
                         ELSE previous
         IN  [withList EXCEPT !.sources = Append(@, current.source_name)]
    ELSE previous

\* The source bookkeeping of the merge branch (lines 167-172)
AccumulateSources(previous, current) ==
    IF /\ "source_name" \in DOMAIN current
       /\ "source_name" \in DOMAIN previous
       /\ current.source_name # previous.source_name
    THEN LET withList == IF "sources" \notin DOMAIN previous
                         THEN ("sources" :> <<previous.source_name>>) @@ previous
                         ELSE previous
         IN  IF current.source_name \notin Range(withList.sources)
             THEN [withList EXCEPT !.sources = Append(@, current.source_name)]
             ELSE withList
    ELSE previous

\* The merge branch: previous after folding current into it (lines 165-172)
Extend(previous, current) ==
    LET new_end == Max(previous.suspicious_end_char, current.suspicious_end_char)
        new_text == previous.text
                      \o PySliceFrom(current.text, new_end - current.suspicious_start_char)
    IN  AccumulateSources(
            [previous EXCEPT !.suspicious_end_char = new_end, !.text = new_text],
            current)

\* Mutant of MergeLoop: `merged.append(current)` outside the else branch
RECURSIVE MergeLoopAlwaysAppend(_, _)
MergeLoopAlwaysAppend(rest, merged) ==
    IF rest = <<>> THEN merged
    ELSE LET current == Head(rest)
             previous == merged[Len(merged)]
         IN  IF Overlaps(previous, current)
             THEN MergeLoopAlwaysAppend(Tail(rest),
                      Append([merged EXCEPT ![Len(merged)] = Extend(previous, current)],
                             current))
             ELSE MergeLoopAlwaysAppend(Tail(rest), Append(merged, current))

\* The for loop over sorted_segments[1:]
RECURSIVE MergeLoop(_, _)
MergeLoop(rest, merged) ==
    IF rest = <<>> THEN merged
    ELSE LET current == Head(rest)
             previous == merged[Len(merged)]
         IN  IF Overlaps(previous, current)
             THEN MergeLoop(Tail(rest),
                            [merged EXCEPT ![Len(merged)] = Extend(previous, current)])
             ELSE MergeLoop(Tail(rest), Append(merged, current))

merge_overlapping_segments(segs) ==
    IF segs = <<>> THEN <<>>
    ELSE LET sorted_segments == SortByStart(segs)
         IN  MergeLoop(Tail(sorted_segments), <<Head(sorted_segments)>>)

----------------------------------------------------------------------------
(* The loop body of detect_plagiarism_multiple_sources *)

\* segment['source_name'] = source_name, for every segment
TagSegments(segs, source_name) ==
    [j \in DOMAIN segs |-> ("source_name" :> source_name) @@ segs[j]]

\* all_plagiarized_segments after lines 129-132
ExtendAll(all_segs, segs, source_name) ==
    IF segs # <<>> THEN all_segs \o TagSegments(segs, source_name) ELSE all_segs

\* Mutant of UpdateSourceMatches: an entry for every source, matched or not
UpdateSourceMatchesAlways(matches, source_name, sim, segs) ==
    (source_name :> [similarity |-> sim, segments_count |-> Len(segs)]) @@ matches

\* source_matches after lines 129-136
UpdateSourceMatches(matches, source_name, sim, segs) ==
    IF segs # <<>>
    THEN (source_name :> [similarity |-> sim, segments_count |-> Len(segs)]) @@ matches
    ELSE matches

\* Mutant of UpdateMax: the similarity of the last source wins
UpdateMaxLast(max_sim, sim) == sim

\* max_similarity after lines 137-138
UpdateMax(max_sim, sim) == IF Less(max_sim, sim) THEN sim ELSE max_sim

\* The results of find_plagiarism_segments for the sources, in mapping order
\* (line 126), each with its source name
FindAll(suspicious, documents, k) ==
    [i \in DOMAIN documents |->
        <<documents[i][1], find_plagiarism_segments(suspicious, documents[i][2], k)>>]

\* The loop of lines 125-138 from its i-th iteration on
RECURSIVE DetectLoop(_, _, _, _, _)
DetectLoop(named_results, i, all_segs, matches, max_sim) ==
    IF i > Len(named_results) THEN <<max_sim, all_segs, matches>>
    ELSE LET source_name == named_results[i][1]
             result == named_results[i][2]
         IN  DetectLoop(named_results, i + 1,
                        ExtendAll(all_segs, result[2], source_name),
                        UpdateSourceMatches(matches, source_name, result[1], result[2]),
                        UpdateMax(max_sim, result[1]))

\* Lines 121-123 and 140-144 around the loop: initialise, sort, merge, return
DetectReturn(named_results) ==
    LET loop == DetectLoop(named_results, 1, <<>>, <<>>, Zero)
    IN  <<loop[1], merge_overlapping_segments(SortByStart(loop[2])), loop[3]>>

\* detect_plagiarism_multiple_sources as a function of its arguments
detect_plagiarism_multiple_sources(suspicious, documents, k) ==
    DetectReturn(FindAll(suspicious, documents, k))

----------------------------------------------------------------------------
(* plagiarism_detector_corrupted.py: the loop and the merge of the variant *)

\* max_similarity after lines 145-158 of the variant: updated inside `if segments:`
UpdateMaxCorrupted(max_sim, sim, segs) ==
    IF segs # <<>> /\ Less(max_sim, sim) THEN sim ELSE max_sim

RECURSIVE DetectLoopCorrupted(_, _, _, _, _)
DetectLoopCorrupted(named_results, i, all_segs, matches, max_sim) ==
    IF i > Len(named_results) THEN <<max_sim, all_segs, matches>>
    ELSE LET source_name == named_results[i][1]
             result == named_results[i][2]
         IN  DetectLoopCorrupted(named_results, i + 1,
                 IF result[2] # <<>>
                 THEN all_segs \o [j \in DOMAIN result[2] |->
                                      ("source_name" :> source_name) @@ result[2][j]]
                 ELSE all_segs,
                 IF result[2] # <<>>
                 THEN (source_name :> [similarity |-> result[1],
                                       segments_count |-> Len(result[2])]) @@ matches
                 ELSE matches,
                 UpdateMaxCorrupted(max_sim, result[1], result[2]))

\* The merge branch of the variant (lines 192-204)
ExtendCorrupted(previous, current) ==
    LET new_end == Max(previous.suspicious_end_char, current.suspicious_end_char)
        grown == [previous EXCEPT
                     !.suspicious_end_char = new_end,
                     !.text = previous.text \o
                         PySliceFrom(current.text, new_end - current.suspicious_start_char)]
    IN  IF /\ "source_name" \in DOMAIN current
           /\ "source_name" \in DOMAIN grown
           /\ current.source_name # grown.source_name
        THEN LET withList == IF "sources" \notin DOMAIN grown
                             THEN ("sources" :> <<grown.source_name>>) @@ grown
                             ELSE grown
             IN  IF current.source_name \notin Range(withList.sources)
                 THEN [withList EXCEPT !.sources = Append(@, current.source_name)]
                 ELSE withList
        ELSE grown

\* The for loop of the variant (lines 186-206)
RECURSIVE MergeLoopCorrupted(_, _)
MergeLoopCorrupted(rest, merged) ==
    IF rest = <<>> THEN merged
    ELSE LET current == Head(rest)
             previous == merged[Len(merged)]
         IN  IF current.suspicious_start_char <= previous.suspicious_end_char
             THEN MergeLoopCorrupted(Tail(rest),
                      [merged EXCEPT ![Len(merged)] = ExtendCorrupted(previous, current)])
             ELSE MergeLoopCorrupted(Tail(rest), Append(merged, current))

merge_overlapping_segments_corrupted(segs) ==
    IF segs = <<>> THEN <<>>
    ELSE LET sorted_segments == SortByStart(segs)
         IN  MergeLoopCorrupted(Tail(sorted_segments), <<Head(sorted_segments)>>)

DetectReturnCorrupted(named_results) ==
    LET loop == DetectLoopCorrupted(named_results, 1, <<>>, <<>>, Zero)
    IN  <<loop[1], merge_overlapping_segments_corrupted(SortByStart(loop[2])), loop[3]>>

\* detect_plagiarism_multiple_sources of the variant; its find_plagiarism_segments
\* (lines 52-121) is the code of plagiarism_detector.py
detect_plagiarism_multiple_sources_corrupted(suspicious, documents, k) ==
    DetectReturnCorrupted(FindAll(suspicious, documents, k))

----------------------------------------------------------------------------
(* Inputs *)

RECURSIVE Join(_)
Join(words) ==
    IF words = <<>> THEN <<>>
    ELSE IF Len(words) = 1 THEN Head(words)
    ELSE Head(words) \o <<" ">> \o Join(Tail(words))

\* Texts of at most k words of W, separated by single blanks
WordTexts(W, k) == {Join(ws) : ws \in SeqsUpTo(W, k)}

\* Raw texts over the whole alphabet
CharTexts == SeqsUpTo(Chars, MaxTextLen)

\* Words of the documents given to the multi-source loop
DocWords == {<<"b">>, <<"a", "b">>}

\* Words of the source text given to the matcher alone
SourceWords == {<<"a">>, <<"b">>, <<"a", "b">>}

\* Keys of the source-document mapping, in insertion order
SourceNames == <<"A", "B", "C", "D">>

\* Source documents of the multi-source runs: empty, or MaxSrcWords words long
SourceTexts == {<<>>} \cup {Join(ws) : ws \in [1..MaxSrcWords -> DocWords]}

SourceMappings == UNION {[1..m -> SourceTexts] : m \in 0..MaxSources}

NamedSources(texts) == [i \in DOMAIN texts |-> <<SourceNames[i], texts[i]>>]

\* Tokens given to the scorer
Tokens == {<<"b">>, <<"a", "b">>}

\* A text that the segments given to the merger alone are cut from
MergeDoc == [i \in 1..MaxPos |-> IF i % 2 = 1 THEN "b" ELSE " "]

InputSegments ==
    {[text |-> PySlice(MergeDoc, r[1], r[2]),
      suspicious_start_char |-> r[1],
      suspicious_end_char |-> r[2],
      source_name |-> r[3]] :
        r \in {q \in (0..MaxPos) \X (0..MaxPos) \X {"A", "B"} : q[1] <= q[2]}}

None == <<>>

----------------------------------------------------------------------------
(* detect_plagiarism_multiple_sources, one action per loop iteration *)

Init ==
    /\ pc = "loop"
    /\ n \in 1..MaxN
    /\ suspicious_raw_text \in WordTexts(DocWords, MaxSuspWords)
    /\ source_documents \in {NamedSources(t) : t \in SourceMappings}
    /\ idx = 0
    /\ all_plagiarized_segments = <<>>
    /\ source_matches = <<>>
    /\ max_similarity = Zero
    /\ similarity = None
    /\ segments = None
    /\ merged_segments = None
    /\ source_raw_text = None
    /\ remerged_segments = None
    /\ suspicious_tokens = None
    /\ source_tokens = None
    /\ ngrams_out = None
    /\ find_results = <<>>
    /\ detected_segments = None
    /\ highlighted_text = None
    /\ raw_text = None
    /\ tokens_with_offsets = None

\* One iteration of `for source_name, source_text in source_documents.items()`
ProcessSource ==
    /\ pc = "loop"
    /\ idx < Len(source_documents)
    /\ \E source_name \in {source_documents[idx + 1][1]},
          result \in {find_plagiarism_segments(suspicious_raw_text,
                                               source_documents[idx + 1][2], n)} :
           /\ similarity' = result[1]
           /\ segments' = TagSegments(result[2], source_name)
           /\ all_plagiarized_segments' =
                  ExtendAll(all_plagiarized_segments, result[2], source_name)
           /\ source_matches' =
                  UpdateSourceMatches(source_matches, source_name, result[1], result[2])
           /\ max_similarity' = UpdateMax(max_similarity, result[1])
           /\ find_results' = Append(find_results, <<source_name, result>>)
    /\ idx' = idx + 1
    /\ UNCHANGED <<pc, n, suspicious_raw_text, source_raw_text, source_documents,
                   merged_segments, remerged_segments, suspicious_tokens,
                   source_tokens, ngrams_out,
                   detected_segments, highlighted_text, raw_text,
                   tokens_with_offsets>>

\* After the loop: sort, merge, return
MergeAndReturn ==
    /\ pc = "loop"
    /\ idx = Len(source_documents)
    /\ all_plagiarized_segments' = SortByStart(all_plagiarized_segments)
    /\ merged_segments' = merge_overlapping_segments(all_plagiarized_segments')
    /\ pc' = "done"
    /\ UNCHANGED <<n, suspicious_raw_text, source_raw_text, source_documents, idx,
                   similarity, segments, source_matches, max_similarity,
                   remerged_segments, suspicious_tokens, source_tokens, ngrams_out,
                   find_results, detected_segments, highlighted_text, raw_text,
                   tokens_with_offsets>>

Next == ProcessSource \/ MergeAndReturn

Spec == Init /\ [][Next]_vars

----------------------------------------------------------------------------
(* find_plagiarism_segments on one pair of texts *)

InitFind ==
    /\ pc = "find"
    /\ n \in 1..MaxN
    /\ suspicious_raw_text \in CharTexts
    /\ source_raw_text \in WordTexts(SourceWords, MaxSrcWords)
    /\ similarity = None
    /\ segments = None
    /\ source_documents = None
    /\ idx = 0
    /\ all_plagiarized_segments = None
    /\ source_matches = None
    /\ max_similarity = None
    /\ merged_segments = None
    /\ remerged_segments = None
    /\ suspicious_tokens = None
    /\ source_tokens = None
    /\ ngrams_out = None
    /\ find_results = None
    /\ detected_segments = None
    /\ highlighted_text = None
    /\ raw_text = None
    /\ tokens_with_offsets = None

FindSegments ==
    /\ pc = "find"
    /\ \E result \in {find_plagiarism_segments(suspicious_raw_text, source_raw_text, n)} :
           /\ similarity' = result[1]
           /\ segments' = result[2]
    /\ pc' = "found"
    /\ UNCHANGED <<n, suspicious_raw_text, source_raw_text, source_documents, idx,
                   all_plagiarized_segments, source_matches, max_similarity,
                   merged_segments, remerged_segments, suspicious_tokens,
                   source_tokens, ngrams_out,
                   find_results, detected_segments, highlighted_text, raw_text,
                   tokens_with_offsets>>

NextFind == FindSegments

SpecFind == InitFind /\ [][NextFind]_vars

----------------------------------------------------------------------------
(* generate_ngrams and calculate_similarity on token sequences *)

InitScore ==
    /\ pc = "tokens"
    /\ n \in 1..(MaxN + 1)
    /\ suspicious_tokens \in SeqsUpTo(Tokens, MaxTokens)
    /\ source_tokens \in SeqsUpTo(Tokens, MaxTokens)
    /\ ngrams_out = None
    /\ find_results = None
    /\ detected_segments = None
    /\ highlighted_text = None
    /\ raw_text = None
    /\ tokens_with_offsets = None
    /\ similarity = None
    /\ segments = None
    /\ suspicious_raw_text = None
    /\ source_raw_text = None
    /\ source_documents = None
    /\ idx = 0
    /\ all_plagiarized_segments = None
    /\ source_matches = None
    /\ max_similarity = None
    /\ merged_segments = None
    /\ remerged_segments = None

GenerateNgrams ==
    /\ pc = "tokens"
    /\ ngrams_out' = generate_ngrams(suspicious_tokens, n)
    /\ pc' = "ngrams"
    /\ UNCHANGED <<n, suspicious_raw_text, source_raw_text, source_documents, idx,
                   similarity, segments, all_plagiarized_segments, source_matches,
                   max_similarity, merged_segments, remerged_segments,
                   suspicious_tokens, source_tokens, find_results,
                   detected_segments, highlighted_text, raw_text,
                   tokens_with_offsets>>

CalculateSimilarity ==
    /\ pc \in {"tokens", "ngrams"}
    /\ similarity' = calculate_similarity(suspicious_tokens, source_tokens, n)
    /\ pc' = "scored"
    /\ UNCHANGED <<n, suspicious_raw_text, source_raw_text, source_documents, idx,
                   segments, all_plagiarized_segments, source_matches,
                   max_similarity, merged_segments, remerged_segments,
                   suspicious_tokens, source_tokens, ngrams_out,
                   find_results, detected_segments, highlighted_text, raw_text,
                   tokens_with_offsets>>

NextScore == GenerateNgrams \/ CalculateSimilarity

SpecScore == InitScore /\ [][NextScore]_vars

----------------------------------------------------------------------------
(* merge_overlapping_segments on a list of segments in any order.  The    *)
(* variable segments keeps the list as it was given: the records that the   *)
(* Python code extends in place are the ones returned in merged_segments.   *)

InitMerge ==
    /\ pc = "segments"
    /\ segments \in SeqsUpTo(InputSegments, MaxSegs)
    /\ merged_segments = None
    /\ remerged_segments = None
    /\ n = 0
    /\ similarity = None
    /\ suspicious_raw_text = None
    /\ source_raw_text = None
    /\ source_documents = None
    /\ idx = 0
    /\ all_plagiarized_segments = None
    /\ source_matches = None
    /\ max_similarity = None
    /\ suspicious_tokens = None
    /\ source_tokens = None
    /\ ngrams_out = None
    /\ find_results = None
    /\ detected_segments = None
    /\ highlighted_text = None
    /\ raw_text = None
    /\ tokens_with_offsets = None

Merge ==
    /\ pc = "segments"
    /\ merged_segments' = merge_overlapping_segments(segments)
    /\ pc' = "merged"
    /\ UNCHANGED <<n, suspicious_raw_text, source_raw_text, source_documents, idx,
                   similarity, segments, all_plagiarized_segments, source_matches,
                   max_similarity, remerged_segments, suspicious_tokens,
                   source_tokens, ngrams_out,
                   find_results, detected_segments, highlighted_text, raw_text,
                   tokens_with_offsets>>

MergeAgain ==
    /\ pc = "merged"
    /\ remerged_segments' = merge_overlapping_segments(merged_segments)
    /\ pc' = "remerged"
    /\ UNCHANGED <<n, suspicious_raw_text, source_raw_text, source_documents, idx,
                   similarity, segments, all_plagiarized_segments, source_matches,
                   max_similarity, merged_segments, suspicious_tokens,
                   source_tokens, ngrams_out,
                   find_results, detected_segments, highlighted_text, raw_text,
                   tokens_with_offsets>>

NextMerge == Merge \/ MergeAgain

SpecMerge == InitMerge /\ [][NextMerge]_vars

----------------------------------------------------------------------------
(* highlighter.py: the body create_html_report builds *)

\* The opening and the closing marker, one symbol each
SpanOpen == "<span class='highlight'>"
SpanClose == "</span>"

\* The for loop of lines 37-44 and the tail of line 46
RECURSIVE RenderLoop(_, _, _, _)
RenderLoop(suspicious_text, sorted_segments, last_index, highlighted) ==
    IF sorted_segments = <<>>
    THEN highlighted \o PySliceFrom(suspicious_text, last_index)
    ELSE LET segment == Head(sorted_segments)
             start == segment.suspicious_start_char
             end == segment.suspicious_end_char
         IN  RenderLoop(suspicious_text, Tail(sorted_segments), end,
                        highlighted
                          \o PySlice(suspicious_text, last_index, start)
                          \o <<SpanOpen>>
                          \o PySlice(suspicious_text, start, end)
                          \o <<SpanClose>>)

create_html_report(suspicious_text, detected) ==
    RenderLoop(suspicious_text, SortByStart(detected), 0, <<>>)

----------------------------------------------------------------------------
(* The entry points called with any arguments, and the report on their result *)

InitEntry ==
    /\ n \in 0..MaxN
    /\ \/ /\ pc = "find"
          /\ suspicious_raw_text \in CharTexts \cup WordTexts(DocWords, MaxSuspWords)
          /\ source_raw_text \in SourceTexts
          /\ source_documents = None
          /\ all_plagiarized_segments = None
          /\ source_matches = None
          /\ max_similarity = None
          /\ find_results = None
       \/ /\ pc = "loop"
          /\ suspicious_raw_text \in WordTexts(DocWords, MaxSuspWords)
          /\ source_documents \in {NamedSources(t) : t \in SourceMappings}
          /\ source_raw_text = None
          /\ all_plagiarized_segments = <<>>
          /\ source_matches = <<>>
          /\ max_similarity = Zero
          /\ find_results = <<>>
    /\ idx = 0
    /\ similarity = None
    /\ segments = None
    /\ merged_segments = None
    /\ remerged_segments = None
    /\ suspicious_tokens = None
    /\ source_tokens = None
    /\ ngrams_out = None
    /\ detected_segments = None
    /\ highlighted_text = None
    /\ raw_text = None
    /\ tokens_with_offsets = None

\* main_new.py run_test_case: the segments of find_plagiarism_segments, when
\* there are any, go to create_html_report as they are
ReportSingleSource ==
    /\ pc = "found"
    /\ segments # <<>>
    /\ detected_segments' = segments
    /\ highlighted_text' = create_html_report(suspicious_raw_text, detected_segments')
    /\ pc' = "reported"
    /\ UNCHANGED <<n, suspicious_raw_text, source_raw_text, source_documents, idx,
                   similarity, segments, all_plagiarized_segments, source_matches,
                   max_similarity, merged_segments, remerged_segments,
                   suspicious_tokens, source_tokens, ngrams_out, find_results,
                   raw_text, tokens_with_offsets>>

\* cli_interface.py: the merged segments of detect_plagiarism_multiple_sources
\* go to create_html_report
ReportMultiSource ==
    /\ pc = "done"
    /\ detected_segments' = merged_segments
    /\ highlighted_text' = create_html_report(suspicious_raw_text, detected_segments')
    /\ pc' = "reported"
    /\ UNCHANGED <<n, suspicious_raw_text, source_raw_text, source_documents, idx,
                   similarity, segments, all_plagiarized_segments, source_matches,
                   max_similarity, merged_segments, remerged_segments,
                   suspicious_tokens, source_tokens, ngrams_out, find_results,
                   raw_text, tokens_with_offsets>>

NextEntry ==
    \/ FindSegments
    \/ ProcessSource
    \/ MergeAndReturn
    \/ ReportSingleSource
    \/ ReportMultiSource

SpecEntry == InitEntry /\ [][NextEntry]_vars

----------------------------------------------------------------------------
(* preprocess_text_with_offsets on one raw text *)

RawTexts == SeqsUpTo(Chars, MaxRawLen)

InitTokenize ==
    /\ pc = "text"
    /\ raw_text \in RawTexts
    /\ tokens_with_offsets = None
    /\ n = 0
    /\ idx = 0
    /\ suspicious_raw_text = None
    /\ source_raw_text = None
    /\ source_documents = None
    /\ similarity = None
    /\ segments = None
    /\ all_plagiarized_segments = None
    /\ source_matches = None
    /\ max_similarity = None
    /\ merged_segments = None
    /\ remerged_segments = None
    /\ suspicious_tokens = None
    /\ source_tokens = None
    /\ ngrams_out = None
    /\ find_results = None
    /\ detected_segments = None
    /\ highlighted_text = None

Tokenize ==
    /\ pc = "text"
    /\ tokens_with_offsets' = preprocess_text_with_offsets(raw_text)
    /\ pc' = "tokenized"
    /\ UNCHANGED <<n, suspicious_raw_text, source_raw_text, source_documents, idx,
                   similarity, segments, all_plagiarized_segments, source_matches,
                   max_similarity, merged_segments, remerged_segments,
                   suspicious_tokens, source_tokens, ngrams_out, find_results,
                   detected_segments, highlighted_text, raw_text>>

NextTokenize == Tokenize

SpecTokenize == InitTokenize /\ [][NextTokenize]_vars

----------------------------------------------------------------------------
(* Properties of the merger (SpecMerge) *)

\* Character positions inside the half-open ranges of a segment list
Covered(segs) ==
    {p \in 0..MaxPos : \E i \in DOMAIN segs :
        /\ segs[i].suspicious_start_char <= p
        /\ p < segs[i].suspicious_end_char}

Holders(segs, p) ==
    {i \in DOMAIN segs :
        /\ segs[i].suspicious_start_char <= p
        /\ p < segs[i].suspicious_end_char}

\* C1: the merged segments are sorted ascending by suspicious_start_char, each
\* start is strictly greater than the previous end, and their ranges cover
\* exactly the positions covered by the input ranges, each position once.
C1_MergedSortedDisjointCover ==
    pc \in {"merged", "remerged"} =>
        /\ \A i \in 1..(Len(merged_segments) - 1) :
              /\ merged_segments[i].suspicious_start_char
                    <= merged_segments[i + 1].suspicious_start_char
              /\ merged_segments[i].suspicious_end_char
                    < merged_segments[i + 1].suspicious_start_char
        /\ Covered(merged_segments) = Covered(segments)
        /\ \A p \in Covered(segments) : Cardinality(Holders(merged_segments, p)) = 1

\* An unsorted input of three segments, two of them adjacent (end = next start),
\* merged into two segments
C1_Witness ==
    /\ pc = "merged"
    /\ Len(segments) = 3
    /\ Len(merged_segments) = 2
    /\ segments[1].suspicious_start_char > segments[2].suspicious_start_char
    /\ \E i, j \in DOMAIN segments :
          /\ segments[i].suspicious_start_char < segments[i].suspicious_end_char
          /\ segments[i].suspicious_end_char = segments[j].suspicious_start_char
          /\ segments[j].suspicious_start_char < segments[j].suspicious_end_char

\* C2: merging is idempotent: merging the merged list again returns a list
\* equal to it in every field, with the same segments in the same order.
C2_MergeIdempotent ==
    pc = "remerged" =>
        /\ Len(remerged_segments) = Len(merged_segments)
        /\ \A i \in DOMAIN merged_segments :
              /\ DOMAIN remerged_segments[i] = DOMAIN merged_segments[i]
              /\ \A f \in DOMAIN merged_segments[i] :
                    remerged_segments[i][f] = merged_segments[i][f]

\* A second merge of a list in which the first merge folded segments of two
\* sources together and left two segments
C2_Witness ==
    /\ pc = "remerged"
    /\ Len(segments) = 3
    /\ Len(remerged_segments) = 2
    /\ \E i \in DOMAIN merged_segments :
          /\ "sources" \in DOMAIN merged_segments[i]
          /\ merged_segments[i].suspicious_start_char
                < merged_segments[i].suspicious_end_char

----------------------------------------------------------------------------
(* Properties of the n-gram generator and the scorer (SpecScore) *)

\* The window of k tokens that starts at token position i (0-based)
Window(tokens, i, k) == SubSeq(tokens, i + 1, i + k)

WindowCount(tokens, k) == Max(0, Len(tokens) - k + 1)

DistinctNgrams(tokens, k) ==
    {Window(tokens, i, k) : i \in 0..(WindowCount(tokens, k) - 1)}

\* C4: the score is |D_susp \cap D_src| / |D_susp| over the sets of distinct
\* n-grams, 0.0 when D_susp is empty or the intersection is empty, and always
\* between 0 and 1.
C4_SimilarityIsSuspiciousFraction ==
    pc = "scored" =>
        LET d_susp == DistinctNgrams(suspicious_tokens, n)
            d_src == DistinctNgrams(source_tokens, n)
        IN  /\ d_susp = {} => similarity = Zero
            /\ d_susp # {} =>
                  similarity = Ratio(Cardinality(d_susp \cap d_src), Cardinality(d_susp))
            /\ d_susp \cap d_src = {} => similarity = Zero
            /\ LessEq(Zero, similarity)
            /\ LessEq(similarity, One)

\* A score strictly between 0 and 1 where the source has n-grams the
\* suspicious side lacks
C4_Witness ==
    /\ pc = "scored"
    /\ Less(Zero, similarity)
    /\ Less(similarity, One)
    /\ DistinctNgrams(source_tokens, n) \ DistinctNgrams(suspicious_tokens, n) # {}

\* C5 as stated: the score is 1.0 whenever the suspicious n-gram set is a
\* subset of the source n-gram set.
C5_SubsetGivesOne ==
    pc = "scored" =>
        (DistinctNgrams(suspicious_tokens, n) \subseteq DistinctNgrams(source_tokens, n)
            => similarity = One)

\* C5 amended: the score is 1.0 whenever the suspicious n-gram set is non-empty
\* and a subset of the source n-gram set (an empty suspicious set scores 0.0).
C5_NonEmptySubsetGivesOne ==
    pc = "scored" =>
        LET d_susp == DistinctNgrams(suspicious_tokens, n)
            d_src == DistinctNgrams(source_tokens, n)
        IN  /\ (d_susp # {} /\ d_susp \subseteq d_src) => similarity = One
            /\ d_susp = {} => similarity = Zero

\* A suspicious sequence that repeats an n-gram and whose n-grams are a proper
\* subset of the source's
C5_Witness ==
    /\ pc = "scored"
    /\ DistinctNgrams(suspicious_tokens, n) # {}
    /\ DistinctNgrams(suspicious_tokens, n) \subseteq DistinctNgrams(source_tokens, n)
    /\ DistinctNgrams(suspicious_tokens, n) # DistinctNgrams(source_tokens, n)
    /\ Cardinality(DistinctNgrams(suspicious_tokens, n))
          < WindowCount(suspicious_tokens, n)
    /\ similarity = One

\* C6: for n >= 1 generate_ngrams returns max(0, len - n + 1) windows, the i-th
\* being (tokens[i], ..., tokens[i+n-1]), and nothing when len < n.
C6_NgramsAreTheWindows ==
    (pc = "ngrams" /\ n >= 1) =>
        /\ Len(ngrams_out) = WindowCount(suspicious_tokens, n)
        /\ \A i \in 0..(Len(ngrams_out) - 1) :
              /\ Len(ngrams_out[i + 1]) = n
              /\ \A j \in 0..(n - 1) : ngrams_out[i + 1][j + 1] = suspicious_tokens[i + j + 1]
        /\ Len(suspicious_tokens) < n => ngrams_out = <<>>

\* Two windows of two different tokens each
C6_Witness ==
    /\ pc = "ngrams"
    /\ n = 2
    /\ Len(suspicious_tokens) = 3
    /\ Len(ngrams_out) = 2
    /\ suspicious_tokens[1] # suspicious_tokens[2]

----------------------------------------------------------------------------
(* Properties of the matcher (SpecFind) *)

SuspInfo == preprocess_text_with_offsets(suspicious_raw_text)
SrcInfo == preprocess_text_with_offsets(source_raw_text)
SuspWords == TokenWords(SuspInfo)
SrcWords == TokenWords(SrcInfo)

\* Positions (0-based) at which the source has the n-gram g
Occurrences(g) ==
    {p \in 0..(WindowCount(SrcWords, n) - 1) : Window(SrcWords, p, n) = g}

\* Suspicious window positions whose n-gram equals some source n-gram
MatchingPositions ==
    {i \in 0..(WindowCount(SuspWords, n) - 1) :
        Occurrences(Window(SuspWords, i, n)) # {}}

\* The matching position that the j-th record belongs to: the j-th smallest
PositionOf(j) ==
    CHOOSE i \in MatchingPositions :
        Cardinality({h \in MatchingPositions : h < i}) = j - 1

Least(S) == CHOOSE x \in S : \A y \in S : x <= y

\* C3: for n >= 1 there is exactly one record per suspicious window position
\* whose n-gram equals a source n-gram and none for any other position;
\* repeated n-grams get a record each; the records are in ascending order of
\* position, hence of suspicious_start_char.
C3_OneRecordPerMatchingWindow ==
    (pc = "found" /\ n >= 1) =>
        /\ Len(segments) = Cardinality(MatchingPositions)
        /\ \A j \in DOMAIN segments :
              segments[j].suspicious_start_char = SuspInfo[PositionOf(j) + 1][2]
        /\ \A j \in 1..(Len(segments) - 1) :
              segments[j].suspicious_start_char <= segments[j + 1].suspicious_start_char

\* The same n-gram twice in the suspicious text, a record for each
C3_Witness ==
    /\ pc = "found"
    /\ Len(segments) = 2
    /\ Window(SuspWords, 0, n) = Window(SuspWords, 1, n)
    /\ segments[1].suspicious_start_char < segments[2].suspicious_start_char

\* C7: every record's suspicious range is that of its window's first and last
\* token, lies inside the suspicious text, and slices the record's text out of
\* the suspicious text: len(text) = end - start.
C7_OffsetsRoundTrip ==
    pc = "found" =>
        \A j \in DOMAIN segments :
            LET seg == segments[j]
                i == PositionOf(j)
            IN  /\ seg.suspicious_start_char = SuspInfo[i + 1][2]
                /\ seg.suspicious_end_char = SuspInfo[i + n][3]
                /\ 0 <= seg.suspicious_start_char
                /\ seg.suspicious_start_char < seg.suspicious_end_char
                /\ seg.suspicious_end_char <= Len(suspicious_raw_text)
                /\ PySlice(suspicious_raw_text, seg.suspicious_start_char,
                           seg.suspicious_end_char) = seg.text
                /\ Len(seg.text) = seg.suspicious_end_char - seg.suspicious_start_char

\* C8: the source range of every record is that of the first (lowest position)
\* occurrence of its n-gram in the source, and the index lists every occurrence
\* of each source n-gram in ascending order.
C8_FirstSourceOccurrence ==
    pc = "found" =>
        /\ \A j \in DOMAIN segments :
              LET first == Least(Occurrences(Window(SuspWords, PositionOf(j), n)))
              IN  /\ segments[j].source_start_char = SrcInfo[first + 1][2]
                  /\ segments[j].source_end_char = SrcInfo[first + n][3]
        /\ LET index == source_ngram_map(generate_ngrams(SrcWords, n))
           IN  /\ DOMAIN index = DistinctNgrams(SrcWords, n)
               /\ \A g \in DOMAIN index :
                     /\ Range(index[g]) = Occurrences(g)
                     /\ \A a, b \in DOMAIN index[g] : a < b => index[g][a] < index[g][b]

\* A record whose n-gram occurs twice in the source
C8_Witness ==
    /\ pc = "found"
    /\ segments # <<>>
    /\ Cardinality(Occurrences(Window(SuspWords, PositionOf(1), n))) = 2
    /\ segments[1].source_start_char = 0

----------------------------------------------------------------------------
(* Properties of the multi-source loop (Spec) *)

\* What find_plagiarism_segments returns for each source document, in order
PerSource ==
    [i \in DOMAIN source_documents |->
        find_plagiarism_segments(suspicious_raw_text, source_documents[i][2], n)]

SourceName(i) == source_documents[i][1]

\* C9: source_summaries has an entry exactly for the sources with at least one
\* record, holding that source's own similarity and the number of its raw,
\* pre-merge records.
C9_SummariesForMatchedSourcesOnly ==
    pc = "done" =>
        LET found == PerSource
            matched == {i \in DOMAIN found : found[i][2] # <<>>}
        IN  /\ DOMAIN source_matches = {SourceName(i) : i \in matched}
            /\ \A i \in matched :
                  LET entry == source_matches[SourceName(i)]
                  IN  /\ entry.similarity = found[i][1]
                      /\ entry.segments_count = Len(found[i][2])
                      /\ entry.segments_count =
                            Cardinality({j \in DOMAIN all_plagiarized_segments :
                                all_plagiarized_segments[j].source_name = SourceName(i)})

\* Two sources, one with two records that merge into fewer segments, the other
\* with none
C9_Witness ==
    /\ pc = "done"
    /\ Len(source_documents) = 2
    /\ Cardinality(DOMAIN source_matches) = 1
    /\ \E name \in DOMAIN source_matches :
          /\ source_matches[name].segments_count = 2
          /\ Len(merged_segments) < 2

\* C10: the returned similarity is the maximum of the per-source similarities,
\* and 0.0 when no source has a positive one.
C10_MaxSimilarityOverSources ==
    pc = "done" =>
        LET found == PerSource
        IN  /\ \A i \in DOMAIN found : LessEq(found[i][1], max_similarity)
            /\ \/ \E i \in DOMAIN found : found[i][1] = max_similarity
               \/ max_similarity = Zero
            /\ (\A i \in DOMAIN found : ~Less(Zero, found[i][1]))
                  => max_similarity = Zero

\* Two sources with different positive similarities, the larger one first
C10_Witness ==
    /\ pc = "done"
    /\ Len(source_documents) = 2
    /\ Less(Zero, PerSource[2][1])
    /\ Less(PerSource[2][1], PerSource[1][1])
    /\ max_similarity = PerSource[1][1]

\* The raw records folded into the merged segment m: those inside its range
Folded(m) ==
    {j \in DOMAIN all_plagiarized_segments :
        /\ m.suspicious_start_char <= all_plagiarized_segments[j].suspicious_start_char
        /\ all_plagiarized_segments[j].suspicious_end_char <= m.suspicious_end_char}

FoldedNames(m) == {all_plagiarized_segments[j].source_name : j \in Folded(m)}

\* C11: a merged segment has a `sources` list if and only if the records folded
\* into it come from at least two distinct sources; the list then holds each of
\* those names exactly once, the segment's own source_name first.
C11_SourcesListIffSeveralSources ==
    pc = "done" =>
        \A i \in DOMAIN merged_segments :
            LET m == merged_segments[i]
                names == FoldedNames(m)
            IN  /\ m.source_name \in names
                /\ ("sources" \in DOMAIN m) <=> (Cardinality(names) >= 2)
                /\ "sources" \in DOMAIN m =>
                      /\ Range(m.sources) = names
                      /\ Len(m.sources) = Cardinality(names)
                      /\ m.sources[1] = m.source_name

\* Two sources matching the same two overlapping windows: one merged segment
\* folding four records, its list holding the two names once each
C11_Witness ==
    /\ pc = "done"
    /\ \E i \in DOMAIN merged_segments :
          /\ "sources" \in DOMAIN merged_segments[i]
          /\ Cardinality(Folded(merged_segments[i])) >= 4
          /\ Len(merged_segments[i].sources) = 2

\* C17: after merging, the text of every merged segment is the slice of the
\* suspicious text its range addresses, and as long as the range, also when
\* an overlapping record extended the segment.
C17_MergedTextIsSlice ==
    pc = "done" =>
        \A i \in DOMAIN merged_segments :
            LET m == merged_segments[i]
            IN  /\ m.text = PySlice(suspicious_raw_text, m.suspicious_start_char,
                                    m.suspicious_end_char)
                /\ Len(m.text) = m.suspicious_end_char - m.suspicious_start_char

\* The names a merged segment attributes itself to beyond its primary source
SourcesSet(m) == IF "sources" \in DOMAIN m THEN Range(m.sources) ELSE {}

RangesOf(segs) ==
    [i \in DOMAIN segs |-> <<segs[i].suspicious_start_char, segs[i].suspicious_end_char>>]

\* C18: the result of detect_plagiarism_multiple_sources does not depend on the
\* order of the sources: for every reordering of the mapping max_similarity and
\* source_summaries are equal, the merged segments have the same ranges in the
\* same sequence, and each carries the same set of names in `sources`.
C18_SourceOrderIndependent ==
    pc = "done" =>
        \A p \in Permutations(DOMAIN find_results) :
            \A r \in {DetectReturn([i \in DOMAIN find_results |-> find_results[p[i]]])} :
                    /\ r[1] = max_similarity
                    /\ DOMAIN r[3] = DOMAIN source_matches
                    /\ \A name \in DOMAIN r[3] : r[3][name] = source_matches[name]
                    /\ RangesOf(r[2]) = RangesOf(merged_segments)
                    /\ \A i \in DOMAIN r[2] :
                          SourcesSet(r[2][i]) = SourcesSet(merged_segments[i])

\* Two matched sources with different similarities whose swap changes the
\* primary source and the order inside `sources` of a merged segment
C18_Witness ==
    /\ pc = "done"
    /\ Len(source_documents) = 2
    /\ Cardinality({source_matches[name].similarity : name \in DOMAIN source_matches}) = 2
    /\ \E i \in DOMAIN merged_segments :
          /\ "sources" \in DOMAIN merged_segments[i]
          /\ LET r == DetectReturn(<<find_results[2], find_results[1]>>)
             IN  /\ r[2][i].source_name # merged_segments[i].source_name
                 /\ r[2][i].sources # merged_segments[i].sources

\* C16: the variant in plagiarism_detector_corrupted.py returns the same triple
\* as detect_plagiarism_multiple_sources for every text, mapping and n, and its
\* merge_overlapping_segments returns the same list as the original's.
C16_CorruptedVariantEquivalent ==
    pc = "done" =>
        \A r \in {DetectReturnCorrupted(find_results)} :
            /\ r[1] = max_similarity
            /\ r[2] = merged_segments
            /\ DOMAIN r[3] = DOMAIN source_matches
            /\ \A name \in DOMAIN r[3] : r[3][name] = source_matches[name]
            /\ merge_overlapping_segments_corrupted(all_plagiarized_segments)
                   = merge_overlapping_segments(all_plagiarized_segments)

\* A source without records (the variant skips its max update) next to a
\* matched one whose records merge
C16_Witness ==
    /\ pc = "done"
    /\ Len(source_documents) = 2
    /\ \E i, j \in DOMAIN source_documents :
          /\ PerSource[i][2] = <<>>
          /\ PerSource[j][2] # <<>>
    /\ Len(merged_segments) < Len(all_plagiarized_segments)

\* C12: an entry point returns a value only for valid arguments: n >= 1, and
\* for detect_plagiarism_multiple_sources a non-empty mapping; with n <= 0 or
\* an empty mapping the call fails and returns nothing.
C12_InvalidArgumentsRejected ==
    /\ pc = "found" => n >= 1
    /\ pc = "done" => n >= 1 /\ source_documents # <<>>

\* The words of the i-th source document
SourceWordsOf(i) == TokenWords(preprocess_text_with_offsets(source_documents[i][2]))

\* The suspicious text and the i-th source share no n-gram (in particular when
\* either has fewer than n tokens)
NoSharedNgram(i) ==
    DistinctNgrams(SuspWords, n) \cap DistinctNgrams(SourceWordsOf(i), n) = {}

\* C13: for n >= 1, a source that shares no n-gram with the suspicious text, or
\* a text with fewer than n tokens, is a normal result: find_plagiarism_segments
\* returns (0.0, []), and when that is so for every source
\* detect_plagiarism_multiple_sources returns (0.0, [], {}).
C13_NoMatchIsNormalResult ==
    n >= 1 =>
        /\ (pc = "found"
              /\ DistinctNgrams(SuspWords, n) \cap DistinctNgrams(SrcWords, n) = {}) =>
              /\ similarity = Zero
              /\ segments = <<>>
        /\ (pc = "loop" /\ idx >= 1 /\ NoSharedNgram(idx)) =>
              find_results[idx][2] = <<Zero, <<>>>>
        /\ (pc = "done" /\ \A i \in DOMAIN source_documents : NoSharedNgram(i)) =>
              /\ max_similarity = Zero
              /\ merged_segments = <<>>
              /\ DOMAIN source_matches = {}

\* A run over two sources, one with fewer than n tokens, one with n tokens and
\* no n-gram of the suspicious text, which itself has at least n tokens
C13_Witness ==
    /\ pc = "done"
    /\ n >= 1
    /\ Len(source_documents) = 2
    /\ Len(SuspWords) >= n
    /\ \E i, j \in DOMAIN source_documents :
          /\ Len(SourceWordsOf(i)) < n
          /\ Len(SourceWordsOf(j)) >= n
          /\ NoSharedNgram(j)
    /\ max_similarity = Zero
    /\ merged_segments = <<>>

\* C19: find_plagiarism_segments returns a positive similarity if and only if
\* it returns at least one record; in detect_plagiarism_multiple_sources every
\* source with positive similarity has a summary entry, and max_similarity is
\* positive if and only if merged_segments is non-empty.
C19_PositiveIffRecords ==
    n >= 1 =>
        /\ pc = "found" => (Less(Zero, similarity) <=> (segments # <<>>))
        /\ \A i \in DOMAIN find_results :
              Less(Zero, find_results[i][2][1]) <=> (find_results[i][2][2] # <<>>)
        /\ pc = "done" =>
              /\ \A i \in DOMAIN find_results :
                    Less(Zero, find_results[i][2][1]) =>
                        find_results[i][1] \in DOMAIN source_matches
              /\ Less(Zero, max_similarity) <=> (merged_segments # <<>>)

\* One source with records and a positive similarity, one with neither
C19_Witness ==
    /\ pc = "done"
    /\ n >= 1
    /\ \E i, j \in DOMAIN find_results :
          /\ Less(Zero, find_results[i][2][1])
          /\ find_results[i][2][2] # <<>>
          /\ find_results[j][2] = <<Zero, <<>>>>
    /\ Less(Zero, max_similarity)
    /\ merged_segments # <<>>

\* The rendered body without its markers
StripMarkers(highlighted) ==
    SelectSeq(highlighted, LAMBDA c : c \notin {SpanOpen, SpanClose})

\* Positions (1-based, counted without the markers) of the characters that
\* stand between an opening and a closing marker
RECURSIVE MarkedPositions(_, _, _)
MarkedPositions(highlighted, pos, inside) ==
    IF highlighted = <<>> THEN {}
    ELSE IF Head(highlighted) = SpanOpen
         THEN MarkedPositions(Tail(highlighted), pos, TRUE)
    ELSE IF Head(highlighted) = SpanClose
         THEN MarkedPositions(Tail(highlighted), pos, FALSE)
    ELSE (IF inside THEN {pos} ELSE {})
             \cup MarkedPositions(Tail(highlighted), pos + 1, inside)

\* C15: for every segment list an entry point returns and the flow passes to
\* create_html_report, the body without its markers is the suspicious text
\* (each character once, in order), and the highlighted characters are exactly
\* those in the union of the segments' ranges.
C15_ReportHighlightsRangesOnce ==
    pc = "reported" =>
        /\ StripMarkers(highlighted_text) = suspicious_raw_text
        /\ MarkedPositions(highlighted_text, 1, FALSE) =
              UNION {(detected_segments[i].suspicious_start_char + 1)
                        .. detected_segments[i].suspicious_end_char :
                     i \in DOMAIN detected_segments}

\* The maximal runs of characters of a text that are neither blank nor
\* punctuation, as ranges (start, end) with 0-based start and exclusive end
IsSeparator(c) == c \in Punctuation \cup {" "}

MaximalRuns(t) ==
    {r \in (0..Len(t)) \X (0..Len(t)) :
        /\ r[1] < r[2]
        /\ \A p \in (r[1] + 1)..r[2] : ~IsSeparator(t[p])
        /\ r[1] = 0 \/ IsSeparator(t[r[1]])
        /\ r[2] = Len(t) \/ IsSeparator(t[r[2] + 1])}

\* C14: for a text whose lower-casing keeps its length, the tokens come left to
\* right with 0 <= start < end <= len(text), each end strictly before the next
\* start; a word is the lower-cased text[start:end], is no stop-word and holds
\* no punctuation or whitespace; the retained tokens keep the offsets of their
\* runs in the text whatever stop-words were removed; the empty text has no
\* tokens.
C14_TokensAddressOriginalText ==
    (pc = "tokenized" /\ Len(Lower(raw_text)) = Len(raw_text)) =>
        LET toks == tokens_with_offsets
        IN  /\ raw_text = <<>> => toks = <<>>
            /\ \A i \in DOMAIN toks :
                  /\ 0 <= toks[i][2]
                  /\ toks[i][2] < toks[i][3]
                  /\ toks[i][3] <= Len(raw_text)
                  /\ toks[i][1] = Lower(PySlice(raw_text, toks[i][2], toks[i][3]))
                  /\ toks[i][1] \notin StopWords
                  /\ \A c \in Range(toks[i][1]) : ~IsSeparator(c)
            /\ \A i \in 1..(Len(toks) - 1) : toks[i][3] < toks[i + 1][2]
            /\ {<<toks[i][2], toks[i][3]>> : i \in DOMAIN toks} =
                  {r \in MaximalRuns(raw_text) :
                      Lower(PySlice(raw_text, r[1], r[2])) \notin StopWords}

\* A stop-word, then punctuation, then an upper-case word that is retained at
\* its own offsets
C14_Witness ==
    /\ pc = "tokenized"
    /\ Len(Lower(raw_text)) = Len(raw_text)
    /\ \E c \in Range(raw_text) : c \in Punctuation
    /\ Cardinality(MaximalRuns(raw_text)) > Len(tokens_with_offsets)
    /\ \E i \in DOMAIN tokens_with_offsets :
          /\ tokens_with_offsets[i][2] > 0
          /\ tokens_with_offsets[i][1] #
                PySlice(raw_text, tokens_with_offsets[i][2], tokens_with_offsets[i][3])

====
